---- MODULE Spec2Model ----
(***************************************************************************)
(* Model of python-opencv-test.py: a straight-line diagnostic script that  *)
(* loads an image and a face-detection network, computes per-anchor        *)
(* softmax confidences, decodes boxes, draws the top detections on a copy  *)
(* of the image, writes it, and finally runs a Haar cascade for reference. *)
(*                                                                         *)
(* Floats are fixed point in thousandths (1.0 is 1000).  A confidence is   *)
(* kept as the exact quotient [num, den] of the two fixed-point            *)
(* exponentials, so that comparisons with 0.1, 0.3, 0.5 and 0.8 are exact. *)
(* The two output tensors are sparse: every anchor holds the background    *)
(* logits BgLogits and a zero location except the anchors listed in their  *)
(* "hot" maps.                                                             *)
(***************************************************************************)
EXTENDS Integers, Sequences, FiniteSets, TLC

VARIABLES
    pc,                 \* position of the script
    exit_code,          \* -1 while running, else the process exit status
    stdout,             \* tags of the messages printed so far
    error,              \* the uncaught exception that ended the run, or "none"
    image_exists,       \* os.path.exists(test_image_path): "unchecked", "yes", "no"
    model_exists,       \* os.path.exists(model_path)
    config_exists,      \* os.path.exists(config_path)
    img,                \* the loaded image: size and the drawing done on it
    result_img,         \* the copy that is drawn on
    forward_runs,       \* number of net.forward calls
    mbox_conf,          \* confidence tensor (sparse)
    mbox_loc,           \* location tensor (sparse)
    num_anchors,
    range_idx,          \* index in ranges of the next range to report
    range_stats,        \* per reported range: high_conf_count and max_conf
    early_high_conf,
    late_high_conf,
    very_low_threshold_count,
    all_detections,
    left_count,
    right_count,
    written,            \* one snapshot of result_img per cv2.imwrite call
    cascade_exists,     \* os.path.exists of each cascade path
    cascade_usable,     \* whether the file at each cascade path loads
    face_cascade,       \* [path, empty]; path 0 is None
    haar_failure,       \* the step of the Haar part that raised, or "none"
    haar_ran,           \* detectMultiScale returned
    haar_faces          \* the faces printed, with their side

vars == <<pc, exit_code, stdout, error, image_exists, model_exists,
          config_exists, img, result_img, forward_runs, mbox_conf, mbox_loc,
          num_anchors, range_idx, range_stats, early_high_conf,
          late_high_conf, very_low_threshold_count, all_detections,
          left_count, right_count, written, cascade_exists, cascade_usable,
          face_cascade, haar_failure, haar_ran, haar_faces>>

-----------------------------------------------------------------------------
(* Bounds of the model and constants of the program *)

\* the network may have this many anchors more than the last fixed range needs
MaxExtraAnchors == 1

\* the network may score this many anchors more than are drawn
MaxOver == 1

\* all_detections[:20]
TopN == 20

Min(a, b) == IF a < b THEN a ELSE b

Max(a, b) == IF a > b THEN a ELSE b

\* int(): the quotient n / d (d > 0) truncated toward zero
IntTrunc(n, d) == IF n >= 0 THEN n \div d ELSE -((-n) \div d)

-----------------------------------------------------------------------------
(* Arithmetic on floats *)

\* np.exp on thousandths, rounded to thousandths, for the arguments that occur
ExpTable ==
    [x \in {-6000, -5000, -4000, -3000, -2000, -1386, -1000, 0, 1000, 2000} |->
        CASE x = -6000 -> 2
          [] x = -5000 -> 7
          [] x = -4000 -> 18
          [] x = -3000 -> 50
          [] x = -2000 -> 135
          [] x = -1386 -> 250
          [] x = -1000 -> 368
          [] x = 0     -> 1000
          [] x = 1000  -> 2718
          [] x = 2000  -> 7389]

\* np.exp(x) is inf: the arguments above the table are far beyond float range
ExpOverflows(x) == x > 2000

\* np.exp(x), underflowing to 0 below the table
Exp(x) == IF x \in DOMAIN ExpTable THEN ExpTable[x] ELSE 0

\* a * b of two fixed-point numbers
Mul(a, b) == (a * b) \div 1000

\* confidence c > p / q
Gt(c, p, q) == c.num * q > p * c.den

\* confidence c > confidence d
GtConf(c, d) == c.num * d.den > d.num * c.den

\* max_conf = 0
ZeroConf == [num |-> 0, den |-> 1]

\* softmax without the face exponential in the denominator
SoftmaxNoSum(bg_conf, face_conf) ==
    LET max_c    == Max(bg_conf, face_conf)
        exp_bg   == Exp(bg_conf - max_c)
        exp_face == Exp(face_conf - max_c)
    IN  [num |-> exp_face, den |-> exp_bg]

\* the two-class softmax of lines 64-67, 86-89, 107-110 and 143-146
Softmax(bg_conf, face_conf) ==
    LET max_c    == Max(bg_conf, face_conf)
        exp_bg   == Exp(bg_conf - max_c)
        exp_face == Exp(face_conf - max_c)
    IN  [num |-> exp_face, den |-> exp_bg + exp_face]

-----------------------------------------------------------------------------
(* The output tensors *)

\* logits of an anchor that is no face
BgLogits == <<3000, 0>>

NoTensor == [size |-> 0, hot |-> <<>>]

\* numpy's index check: a negative index counts from the end
InBounds(t, k) == -t.size <= k /\ k < t.size

NormIndex(t, k) == IF k < 0 THEN k + t.size ELSE k

\* mbox_conf[0, k]
ConfAt(k) ==
    LET j == NormIndex(mbox_conf, k)
        a == j \div 2
    IN  IF a \in DOMAIN mbox_conf.hot THEN mbox_conf.hot[a][(j % 2) + 1]
        ELSE BgLogits[(j % 2) + 1]

\* mbox_loc[0, k]
LocAt(k) ==
    LET j == NormIndex(mbox_loc, k)
        a == j \div 4
    IN  IF a \in DOMAIN mbox_loc.hot THEN mbox_loc.hot[a][(j % 4) + 1] ELSE 0

\* the confidence computed for anchor i
Confidence(i) == Softmax(ConfAt(i * 2), ConfAt(i * 2 + 1))

\* the anchors i of idxs with confidence > p / q.  The anchors outside the hot
\* map all hold BgLogits, so one evaluation decides for all of them.
Above(idxs, p, q) ==
    LET scored == DOMAIN mbox_conf.hot
    IN  {i \in scored : i \in idxs /\ Gt(Confidence(i), p, q)}
        \cup (IF Gt(Softmax(BgLogits[1], BgLogits[2]), p, q)
              THEN idxs \ scored ELSE {})

\* the confidences computed over the anchors idxs
Confidences(idxs) ==
    LET scored == DOMAIN mbox_conf.hot
    IN  {Confidence(i) : i \in {j \in scored : j \in idxs}}
        \cup (IF idxs \subseteq scored THEN {}
              ELSE {Softmax(BgLogits[1], BgLogits[2])})

-----------------------------------------------------------------------------
(* Box decoding, lines 149-179 *)

\* max(0, v): the clamp without its upper end
ClampNoUpper(v, hi) == Max(0, v)

\* max(0, min(v, hi)) of lines 168-171
Clamp(v, hi) == Max(0, Min(v, hi))

\* 'LEFT' if (x1 + x2) // 2 < img.shape[1] // 2 else 'RIGHT', line 178
Side(x1, x2, width) ==
    IF (x1 + x2) \div 2 < width \div 2 THEN "LEFT" ELSE "RIGHT"

\* "LEFT" if x + w/2 < img.shape[1]/2 else "RIGHT", line 246, in true division
HaarSide(x, w, width) == IF 2 * x + w < width THEN "LEFT" ELSE "RIGHT"

\* int() of an infinite float raises OverflowError, lines 162-165
DecodeOverflows(i) ==
    LET scale == 80
    IN  \/ ExpOverflows(Mul(LocAt(i * 4 + 2), scale))
        \/ ExpOverflows(Mul(LocAt(i * 4 + 3), scale))

\* the dictionary appended for anchor i, lines 150-179
Detection(i) ==
    LET scale   == 80
        dx      == Mul(LocAt(i * 4), scale)
        dy      == Mul(LocAt(i * 4 + 1), scale)
        dw      == Mul(LocAt(i * 4 + 2), scale)
        dh      == Mul(LocAt(i * 4 + 3), scale)
        centerX == 500 + dx
        centerY == 500 + dy
        w       == Mul(200, Exp(dw))
        h       == Mul(200, Exp(dh))
        \* (centerX - w/2) * width, in two-thousandths
        x1      == Clamp(IntTrunc((2 * centerX - w) * img.w, 2000), img.w)
        y1      == Clamp(IntTrunc((2 * centerY - h) * img.h, 2000), img.h)
        x2      == Clamp(IntTrunc((2 * centerX + w) * img.w, 2000), img.w)
        y2      == Clamp(IntTrunc((2 * centerY + h) * img.h, 2000), img.h)
    IN  [confidence |-> Confidence(i),
         x1 |-> x1, y1 |-> y1, x2 |-> x2, y2 |-> y2,
         centerX |-> (x1 + x2) \div 2,
         centerY |-> (y1 + y2) \div 2,
         side |-> Side(x1, x2, img.w)]

\* the elements of a set of integers in increasing order
RECURSIVE Ascending(_)
Ascending(S) ==
    IF S = {} THEN <<>>
    ELSE LET m == CHOOSE x \in S : \A y \in S : x <= y
         IN  <<m>> \o Ascending(S \ {m})

-----------------------------------------------------------------------------
(* Sorting and drawing, lines 181-211 *)

\* the list ordered by increasing confidence: the sort without reverse=True
SortAscending(s) ==
    LET n == Len(s)
        place(j) == 1 + Cardinality({i \in 1..n :
                          \/ GtConf(s[j].confidence, s[i].confidence)
                          \/ /\ i < j
                             /\ ~GtConf(s[i].confidence, s[j].confidence)})
    IN  [p \in 1..n |-> s[CHOOSE j \in 1..n : place(j) = p]]

\* list.sort(key=confidence, reverse=True).  The sort is stable: an element
\* comes behind those of higher confidence and behind the earlier ones of
\* equal confidence, which fixes its place.
SortByConfidence(s) ==
    LET n == Len(s)
        place(j) == 1 + Cardinality({i \in 1..n :
                          \/ GtConf(s[i].confidence, s[j].confidence)
                          \/ /\ i < j
                             /\ ~GtConf(s[j].confidence, s[i].confidence)})
    IN  [p \in 1..n |-> s[CHOOSE j \in 1..n : place(j) = p]]

\* the tiers with >= in place of >
TierInclusive(c) ==
    IF ~Gt([num |-> 8, den |-> 10], c.num, c.den)
        THEN [color |-> "green", thickness |-> 3]
    ELSE IF ~Gt([num |-> 5, den |-> 10], c.num, c.den)
        THEN [color |-> "yellow", thickness |-> 2]
    ELSE [color |-> "blue", thickness |-> 1]

\* color and thickness of a detection of confidence c, lines 189-197
Tier(c) ==
    IF Gt(c, 8, 10) THEN [color |-> "green", thickness |-> 3]
    ELSE IF Gt(c, 5, 10) THEN [color |-> "yellow", thickness |-> 2]
    ELSE [color |-> "blue", thickness |-> 1]

\* n / d (n >= 0, d > 0) rounded to the nearest integer, ties to even
RoundHalfEven(n, d) ==
    LET q == n \div d
        r == n % d
    IN  IF 2 * r > d \/ (2 * r = d /\ q % 2 = 1) THEN q + 1 ELSE q

\* f"{confidence*100:.1f}%", as tenths of a percent
Label(c) == RoundHalfEven(c.num * 1000, c.den)

\* the label field of a drawing call that writes no text
NoLabel == 0 - 1

\* one call of a drawing primitive
DrawOp(op, x1, y1, x2, y2, color, thickness, label) ==
    [op |-> op, x1 |-> x1, y1 |-> y1, x2 |-> x2, y2 |-> y2,
     color |-> color, thickness |-> thickness, label |-> label]

\* cv2.rectangle of line 200
Rectangle(det) ==
    LET t == Tier(det.confidence)
    IN  DrawOp("rectangle", det.x1, det.y1, det.x2, det.y2,
               t.color, t.thickness, NoLabel)

\* cv2.putText of lines 203-205
PutText(det) ==
    LET t == Tier(det.confidence)
        y == Max(det.y1 - 10, 20)
    IN  DrawOp("putText", det.x1, y, det.x1, y, t.color, 2,
               Label(det.confidence))

\* the drawing of the loop of lines 187-207 over all_detections[:20]
DrawTop(dets) ==
    LET n == Min(TopN, Len(dets))
    IN  [k \in 1..(2 * n) |->
            IF k % 2 = 1 THEN Rectangle(dets[(k + 1) \div 2])
            ELSE PutText(dets[k \div 2])]

\* cv2.line of lines 210-211
CenterLine ==
    LET center_x == img.w \div 2
    IN  DrawOp("line", center_x, 0, center_x, img.h, "white", 2, NoLabel)

-----------------------------------------------------------------------------
(* Inputs: the image and the network output *)

\* img.shape[1] and img.shape[0] of the images read
ImageSizes == {<<640, 480>>, <<641, 481>>}

\* what the network gives for an anchor it scores: logits and location
HotKinds ==
    { [logits |-> <<0, 0>>,    loc |-> <<0, 0, -25000, -25000>>],
      [logits |-> <<0, 2000>>, loc |-> <<0, 0, 25000, 25000>>],
      [logits |-> <<0, 1000>>, loc |-> <<-5000, 5000, 0, 0>>],
      [logits |-> <<0, 1386>>, loc |-> <<0, 0, 0, 1000>>],
      [logits |-> <<2000, 0>>, loc |-> <<5000, -5000, 0, 0>>],
      [logits |-> <<1000, 0>>, loc |-> <<0, 0, 10000000, 0>>] }

\* the fixed index ranges of lines 46-51
ranges(n) ==
    << [start |-> 0,        end |-> 1000],
       [start |-> 3000,     end |-> 4000],
       [start |-> 6000,     end |-> 7000],
       [start |-> n - 1000, end |-> n] >>

\* anchor counts around the least one the fixed ranges fit in, and the count
\* of the 300x300 detector the script names
AnchorCounts == (7000 - 1)..(7000 + MaxExtraAnchors) \cup {8732}

\* how many anchors the network scores
HotCounts == (0..2) \cup (TopN..(TopN + MaxOver))

\* the anchor of the j-th scored anchor, spread over the tensor
HotIndex(j, n) == ((j - 1) * 333) % n

\* the scored anchors: k of them, of the two kinds of pattern in turn
HotAnchors(k, pattern, n) ==
    [a \in {HotIndex(j, n) : j \in 1..k} |->
        LET j == CHOOSE j \in 1..k : HotIndex(j, n) = a
        IN  pattern[((j - 1) % 2) + 1]]

\* the faces detectMultiScale may return
HaarFaceLists ==
    { <<>>,
      << [x |-> 100, y |-> 100, w |-> 60, h |-> 60],
         [x |-> 290, y |-> 200, w |-> 60, h |-> 60],
         [x |-> 400, y |-> 100, w |-> 80, h |-> 80] >> }

\* the cascade_paths of lines 230-234, by position
CascadePaths == 1..3

NoCascade == [path |-> 0, empty |-> TRUE]

-----------------------------------------------------------------------------
(* State *)

files == <<image_exists, model_exists, config_exists>>

images == <<img, result_img, written>>

tensors == <<forward_runs, mbox_conf, mbox_loc, num_anchors>>

stats == <<range_idx, range_stats, early_high_conf, late_high_conf,
           very_low_threshold_count>>

dets == <<all_detections, left_count, right_count>>

haar == <<cascade_exists, cascade_usable, face_cascade, haar_failure,
          haar_ran, haar_faces>>

NoImage == [w |-> 0, h |-> 0, ops |-> <<>>]

Init ==
    /\ pc = "check_image"
    /\ exit_code = -1
    /\ stdout = <<"banner">>
    /\ error = "none"
    /\ image_exists = "unchecked"
    /\ model_exists = "unchecked"
    /\ config_exists = "unchecked"
    /\ img = NoImage
    /\ result_img = NoImage
    /\ forward_runs = 0
    /\ mbox_conf = NoTensor
    /\ mbox_loc = NoTensor
    /\ num_anchors = 0
    /\ range_idx = 1
    /\ range_stats = <<>>
    /\ early_high_conf = 0
    /\ late_high_conf = 0
    /\ very_low_threshold_count = 0
    /\ all_detections = <<>>
    /\ left_count = 0
    /\ right_count = 0
    /\ written = <<>>
    /\ cascade_exists = [p \in CascadePaths |-> FALSE]
    /\ cascade_usable = [p \in CascadePaths |-> FALSE]
    /\ face_cascade = NoCascade
    /\ haar_failure = "none"
    /\ haar_ran = FALSE
    /\ haar_faces = <<>>

YesNo(b) == IF b THEN "yes" ELSE "no"

\* print(...)
Emit(tag) == stdout' = Append(stdout, tag)

\* exit(1)
Exit1 == pc' = "exited" /\ exit_code' = 1 /\ error' = error

\* an exception nothing catches: traceback, exit status 1
Raise(e) == pc' = "crashed" /\ exit_code' = 1 /\ error' = e

Goto(l) == pc' = l /\ exit_code' = exit_code /\ error' = error

\* the script ran off its last line
Finish == pc' = "done" /\ exit_code' = 0 /\ error' = error

-----------------------------------------------------------------------------
(* Loading, lines 9-43 *)

\* lines 10-13
CheckImage ==
    /\ pc = "check_image"
    /\ \E e \in BOOLEAN :
        /\ image_exists' = YesNo(e)
        /\ IF e THEN Goto("load_image") /\ UNCHANGED stdout
           ELSE Emit("error_image_not_found") /\ Exit1
    /\ UNCHANGED <<model_exists, config_exists, images, tensors, stats, dets,
                   haar>>

\* lines 15-16: cv2.imread gives None for a file it cannot decode, and
\* img.shape then raises
LoadImage ==
    /\ pc = "load_image"
    /\ \/ \E size \in ImageSizes :
            /\ img' = [w |-> size[1], h |-> size[2], ops |-> <<>>]
            /\ Emit("image_loaded")
            /\ Goto("check_model")
       \/ /\ Raise("AttributeError")
          /\ UNCHANGED <<img, stdout>>
    /\ UNCHANGED <<files, result_img, written, tensors, stats, dets, haar>>

\* the test of line 22 with "and" in place of "or"
BothModelFilesMissing(m, c) == ~m /\ ~c

\* not os.path.exists(model_path) or not os.path.exists(config_path)
ModelFilesMissing(m, c) == ~m \/ ~c

\* lines 19-24
CheckModel ==
    /\ pc = "check_model"
    /\ \E m \in BOOLEAN, c \in BOOLEAN :
        /\ model_exists' = YesNo(m)
        /\ config_exists' = YesNo(c)
        /\ IF ModelFilesMissing(m, c)
           THEN Emit("error_model_not_found") /\ Exit1
           ELSE Goto("forward") /\ UNCHANGED stdout
    /\ UNCHANGED <<image_exists, images, tensors, stats, dets, haar>>

\* lines 26-43: the network is loaded and run; its two outputs are the inputs
\* of everything that follows
Forward ==
    /\ pc = "forward"
    /\ \E n \in AnchorCounts, k \in HotCounts, pattern \in HotKinds \X HotKinds :
        LET hot == HotAnchors(k, pattern, n)
        IN  /\ mbox_conf' = [size |-> 2 * n,
                             hot  |-> [a \in DOMAIN hot |-> hot[a].logits]]
            /\ mbox_loc'  = [size |-> 4 * n,
                             hot  |-> [a \in DOMAIN hot |-> hot[a].loc]]
            /\ num_anchors' = (2 * n) \div 2
    /\ forward_runs' = forward_runs + 1
    /\ stdout' = stdout \o <<"model_loaded", "shapes", "num_anchors",
                             "results_header">>
    /\ Goto("range_stats")
    /\ UNCHANGED <<files, images, stats, dets, haar>>

-----------------------------------------------------------------------------
(* Statistics, lines 45-126 *)

\* the final max_conf of the loop of lines 59-72 over the anchors idxs
MaxConfidence(idxs) ==
    LET S == Confidences(idxs)
    IN  IF \A c \in S : ~GtConf(c, ZeroConf) THEN ZeroConf
        ELSE CHOOSE c \in S : \A d \in S : ~GtConf(d, c)

\* lines 55-76, for one range: an index outside the tensor raises IndexError
RangeStats ==
    /\ pc = "range_stats"
    /\ LET range_info == ranges(num_anchors)[range_idx]
           idxs == range_info.start..(range_info.end - 1)
       IN  IF \E i \in idxs : \/ ~InBounds(mbox_conf, i * 2)
                              \/ ~InBounds(mbox_conf, i * 2 + 1)
           THEN /\ Raise("IndexError")
                /\ UNCHANGED <<stdout, stats>>
           ELSE /\ range_stats' = Append(range_stats,
                     [high_conf_count |->
                          Cardinality(Above(idxs, 3, 10)),
                      max_conf |-> MaxConfidence(idxs)])
                /\ range_idx' = range_idx + 1
                /\ Emit("range_report")
                /\ IF range_idx = Len(ranges(num_anchors))
                   THEN Goto("distribution") ELSE Goto("range_stats")
                /\ UNCHANGED <<early_high_conf, late_high_conf,
                               very_low_threshold_count>>
    /\ UNCHANGED <<files, images, tensors, dets, haar>>

\* lines 78-99
Distribution ==
    /\ pc = "distribution"
    /\ LET high == Above(0..(num_anchors - 1), 5, 10)
       IN  /\ early_high_conf' =
                 Cardinality({i \in high : i < num_anchors \div 2})
           /\ late_high_conf' =
                 Cardinality({i \in high : ~(i < num_anchors \div 2)})
    /\ Emit("distribution_report")
    /\ Goto("low_threshold")
    /\ UNCHANGED <<files, images, tensors, range_idx, range_stats,
                   very_low_threshold_count, dets, haar>>

\* lines 101-126
LowThreshold ==
    /\ pc = "low_threshold"
    /\ very_low_threshold_count' =
          Cardinality(Above(0..(num_anchors \div 2 - 1), 1, 10))
    /\ stdout' = stdout \o <<"low_threshold_report", "comparison">>
    /\ Goto("copy_image")
    /\ UNCHANGED <<files, images, tensors, range_idx, range_stats,
                   early_high_conf, late_high_conf, dets, haar>>

-----------------------------------------------------------------------------
(* Visual output, lines 128-222 *)

\* lines 128-136
CopyImage ==
    /\ pc = "copy_image"
    /\ result_img' = img
    /\ all_detections' = <<>>
    /\ Emit("visual_header")
    /\ Goto("decode")
    /\ UNCHANGED <<files, img, written, tensors, stats, left_count,
                   right_count, haar>>

\* lines 138-179: the anchors above 10% are decoded and appended in index
\* order; int() of an infinite coordinate raises OverflowError
Decode ==
    /\ pc = "decode"
    /\ \E passing \in {Ascending(Above(0..(num_anchors - 1), 1, 10))} :
        LET raising == {k \in 1..Len(passing) : DecodeOverflows(passing[k])}
            upto    == IF raising = {} THEN Len(passing)
                       ELSE (CHOOSE k \in raising :
                                \A j \in raising : k <= j) - 1
        IN  /\ all_detections' = [k \in 1..upto |-> Detection(passing[k])]
            /\ IF raising = {} THEN Goto("sort") ELSE Raise("OverflowError")
    /\ UNCHANGED <<stdout, files, images, tensors, stats, left_count,
                   right_count, haar>>

\* lines 181-184
Sort ==
    /\ pc = "sort"
    /\ all_detections' = SortByConfidence(all_detections)
    /\ Emit("total_detections")
    /\ Goto("draw")
    /\ UNCHANGED <<files, images, tensors, stats, left_count, right_count,
                   haar>>

\* lines 186-207
DrawDetections ==
    /\ pc = "draw"
    /\ result_img' = [result_img EXCEPT !.ops = @ \o DrawTop(all_detections)]
    /\ stdout' = stdout \o
          [k \in 1..Min(TopN, Len(all_detections)) |-> "detection"]
    /\ Goto("center_line")
    /\ UNCHANGED <<files, img, written, tensors, stats, dets, haar>>

\* the center line drawn on the loaded image instead of the copy
DrawCenterLineOnOriginal ==
    /\ pc = "center_line"
    /\ img' = [img EXCEPT !.ops = Append(@, CenterLine)]
    /\ left_count' =
          Cardinality({k \in DOMAIN all_detections :
                         all_detections[k].side = "LEFT"})
    /\ right_count' =
          Cardinality({k \in DOMAIN all_detections :
                         all_detections[k].side = "RIGHT"})
    /\ Emit("spatial_distribution")
    /\ Goto("save")
    /\ UNCHANGED <<files, result_img, written, tensors, stats, all_detections,
                   haar>>

\* lines 209-217
DrawCenterLine ==
    /\ pc = "center_line"
    /\ result_img' = [result_img EXCEPT !.ops = Append(@, CenterLine)]
    /\ left_count' =
          Cardinality({k \in DOMAIN all_detections :
                         all_detections[k].side = "LEFT"})
    /\ right_count' =
          Cardinality({k \in DOMAIN all_detections :
                         all_detections[k].side = "RIGHT"})
    /\ Emit("spatial_distribution")
    /\ Goto("save")
    /\ UNCHANGED <<files, img, written, tensors, stats, all_detections, haar>>

\* lines 219-222
SaveResult ==
    /\ pc = "save"
    /\ written' = Append(written, result_img)
    /\ Emit("visualization_saved")
    /\ Goto("haar_gray")
    /\ UNCHANGED <<files, img, result_img, tensors, stats, dets, haar>>

-----------------------------------------------------------------------------
(* Haar cascade for reference, lines 224-251 *)

\* lines 225-226: cv2.cvtColor stands before the try, so what it raises is
\* not caught
HaarGray ==
    /\ pc = "haar_gray"
    /\ Emit("haar_header")
    /\ \/ Goto("haar_probe") /\ UNCHANGED haar_failure
       \/ Raise("cv2.error") /\ haar_failure' = "cvtColor"
    /\ UNCHANGED <<files, images, tensors, stats, dets, cascade_exists,
                   cascade_usable, face_cascade, haar_ran, haar_faces>>

\* the first path that exists, 0 if none does
FirstExisting(exists) ==
    IF \A p \in CascadePaths : ~exists[p] THEN 0
    ELSE CHOOSE p \in CascadePaths :
            exists[p] /\ \A q \in CascadePaths : exists[q] => p <= q

\* lines 229-240 and, when the constructor raises, 250-251: the classifier is
\* built from the first path that exists, whatever the file holds
HaarProbe ==
    /\ pc = "haar_probe"
    /\ \E exists \in [CascadePaths -> BOOLEAN],
          usable \in [CascadePaths -> BOOLEAN] :
        /\ \A p \in CascadePaths : usable[p] => exists[p]
        /\ cascade_exists' = exists
        /\ cascade_usable' = usable
        /\ LET path == FirstExisting(exists)
           IN  \/ /\ face_cascade' =
                        IF path = 0 THEN NoCascade
                        ELSE [path |-> path, empty |-> ~usable[path]]
                  /\ Goto("haar_detect")
                  /\ UNCHANGED <<stdout, haar_failure>>
               \/ /\ path # 0 /\ ~usable[path]
                  /\ haar_failure' = "CascadeClassifier"
                  /\ Emit("haar_error")
                  /\ Finish
                  /\ UNCHANGED face_cascade
    /\ UNCHANGED <<files, images, tensors, stats, dets, haar_ran, haar_faces>>

\* lines 242-251
HaarDetect ==
    /\ pc = "haar_detect"
    /\ IF face_cascade.path # 0 /\ ~face_cascade.empty
       THEN \/ \E faces \in HaarFaceLists :
                 /\ haar_ran' = TRUE
                 /\ haar_faces' =
                       [k \in DOMAIN faces |->
                           [side |-> HaarSide(faces[k].x, faces[k].w, img.w),
                            centerX |-> faces[k].x + faces[k].w \div 2,
                            centerY |-> faces[k].y + faces[k].h \div 2,
                            w |-> faces[k].w, h |-> faces[k].h]]
                 /\ stdout' = stdout \o <<"haar_detected">> \o
                                 [k \in DOMAIN faces |-> "face"]
                 /\ UNCHANGED haar_failure
            \/ /\ haar_failure' = "detectMultiScale"
               /\ Emit("haar_error")
               /\ UNCHANGED <<haar_ran, haar_faces>>
       ELSE /\ Emit("haar_not_found")
            /\ UNCHANGED <<haar_failure, haar_ran, haar_faces>>
    /\ Finish
    /\ UNCHANGED <<files, images, tensors, stats, dets, cascade_exists,
                   cascade_usable, face_cascade>>

-----------------------------------------------------------------------------

Next ==
    \/ CheckImage
    \/ LoadImage
    \/ CheckModel
    \/ Forward
    \/ RangeStats
    \/ Distribution
    \/ LowThreshold
    \/ CopyImage
    \/ Decode
    \/ Sort
    \/ DrawDetections
    \/ DrawCenterLine
    \/ SaveResult
    \/ HaarGray
    \/ HaarProbe
    \/ HaarDetect

Spec == Init /\ [][Next]_vars

-----------------------------------------------------------------------------
(* Properties *)

Last(s) == s[Len(s)]

\* the rectangles drawn on an image, in drawing order
Rectangles(image) == SelectSeq(image.ops, LAMBDA o : o.op = "rectangle")

\* the labels drawn on an image, in drawing order
Texts(image) == SelectSeq(image.ops, LAMBDA o : o.op = "putText")

\* the number of detections the drawing loop visits
Drawn == Min(TopN, Len(all_detections))

AfterSort == {"draw", "center_line", "save", "haar_gray", "haar_probe",
              "haar_detect", "done"}

AfterDraw == AfterSort \ {"draw"}

AfterSave == AfterDraw \ {"center_line", "save"}

\* C1: when the image file or one of the two model files is absent the script
\* prints its error message and exits with status 1, and in that run the
\* network was not run, nothing was decoded and no output image was written.
InvC1 ==
    (image_exists = "no" \/ model_exists = "no" \/ config_exists = "no") =>
        /\ pc = "exited"
        /\ exit_code = 1
        /\ Last(stdout) = (IF image_exists = "no"
                           THEN "error_image_not_found"
                           ELSE "error_model_not_found")
        /\ forward_runs = 0
        /\ all_detections = <<>>
        /\ result_img = NoImage
        /\ written = <<>>

\* the image is there, the model is there and its graph description is not
WitC1 ==
    /\ image_exists = "yes" /\ model_exists = "yes" /\ config_exists = "no"
    /\ pc = "exited"

\* C2: every detection in all_detections has 0 <= x1, x2 <= image width and
\* 0 <= y1, y2 <= image height.
InvC2 ==
    \A k \in DOMAIN all_detections :
        LET d == all_detections[k]
        IN  /\ 0 <= d.x1 /\ d.x1 <= img.w
            /\ 0 <= d.x2 /\ d.x2 <= img.w
            /\ 0 <= d.y1 /\ d.y1 <= img.h
            /\ 0 <= d.y2 /\ d.y2 <= img.h

\* a box wider and higher than the image was cut at all four edges
WitC2 ==
    \E k \in DOMAIN all_detections :
        LET d == all_detections[k]
        IN  d.x1 = 0 /\ d.x2 = img.w /\ d.y1 = 0 /\ d.y2 = img.h

\* C3: a detection is LEFT exactly when the midpoint of x1 and x2 is strictly
\* less than half the image width, for odd and even widths alike.
CexC3 ==
    \A k \in DOMAIN all_detections :
        LET d == all_detections[k]
        IN  d.side = "LEFT" <=> d.x1 + d.x2 < img.w

\* C4: after the sort all_detections is non-increasing in confidence, and the
\* detections drawn are exactly its first min(20, n) entries, in order, so no
\* undrawn detection has a higher confidence than a drawn one.
InvC4 ==
    /\ pc \in AfterSort =>
          \A k \in 1..(Len(all_detections) - 1) :
              ~GtConf(all_detections[k + 1].confidence,
                      all_detections[k].confidence)
    /\ pc \in AfterDraw =>
          /\ Len(Rectangles(result_img)) = Drawn
          /\ Len(Texts(result_img)) = Drawn
          /\ \A k \in 1..Drawn :
                LET d == all_detections[k]
                    r == Rectangles(result_img)[k]
                IN  /\ r.x1 = d.x1 /\ r.y1 = d.y1
                    /\ r.x2 = d.x2 /\ r.y2 = d.y2
                    /\ Texts(result_img)[k].label = Label(d.confidence)
                    /\ \A j \in (Drawn + 1)..Len(all_detections) :
                          ~GtConf(all_detections[j].confidence, d.confidence)

\* more detections than are drawn, of two different confidences
WitC4 ==
    /\ pc = "done"
    /\ Len(all_detections) > TopN
    /\ GtConf(all_detections[1].confidence,
              all_detections[Len(all_detections)].confidence)

\* C5 as stated: confidence >= 0.8 gives green and thickness 3, 0.5 <= c < 0.8
\* gives yellow and thickness 2, c < 0.5 gives blue and thickness 1.
CexC5 ==
    pc \in AfterDraw =>
        \A k \in 1..Drawn :
            LET c == all_detections[k].confidence
                r == Rectangles(result_img)[k]
                tier == <<r.color, r.thickness>>
            IN  /\ c.num * 10 >= 8 * c.den => tier = <<"green", 3>>
                /\ (c.num * 10 >= 5 * c.den /\ c.num * 10 < 8 * c.den)
                      => tier = <<"yellow", 2>>
                /\ c.num * 10 < 5 * c.den => tier = <<"blue", 1>>

\* C5 amended: confidence > 0.8 gives green and thickness 3, 0.5 < c <= 0.8
\* gives yellow and thickness 2, c <= 0.5 gives blue and thickness 1.
InvC5 ==
    pc \in AfterDraw =>
        \A k \in 1..Drawn :
            LET c == all_detections[k].confidence
                r == Rectangles(result_img)[k]
                tier == <<r.color, r.thickness>>
            IN  /\ c.num * 10 > 8 * c.den => tier = <<"green", 3>>
                /\ (c.num * 10 > 5 * c.den /\ c.num * 10 <= 8 * c.den)
                      => tier = <<"yellow", 2>>
                /\ c.num * 10 <= 5 * c.den => tier = <<"blue", 1>>

\* detections of confidence exactly 0.8 and exactly 0.5 were drawn, the first
\* yellow and the second blue
WitC5 ==
    /\ pc \in AfterDraw
    /\ \E k \in 1..Drawn :
          /\ all_detections[k].confidence.num * 10 =
                8 * all_detections[k].confidence.den
          /\ Rectangles(result_img)[k].color = "yellow"
    /\ \E k \in 1..Drawn :
          /\ all_detections[k].confidence.num * 2 =
                all_detections[k].confidence.den
          /\ Rectangles(result_img)[k].color = "blue"

\* C6: whatever step of the Haar part fails, the failure is caught and printed
\* and the script runs to its end.
CexC6 ==
    haar_failure # "none" =>
        /\ pc = "done"
        /\ exit_code = 0
        /\ error = "none"
        /\ Last(stdout) = "haar_error"

\* the probability softmax gives the background class
BgProbability(bg_conf, face_conf) ==
    [num |-> Exp(bg_conf - Max(bg_conf, face_conf)),
     den |-> Softmax(bg_conf, face_conf).den]

InUnit(c) == c.den > 0 /\ 0 <= c.num /\ c.num <= c.den

\* C7: for every pair of logits the face confidence is in [0, 1] and sums to 1
\* with the background probability; logits (0, 0) give exactly 0.5; and the
\* confidences the loops record are these same values.
InvC7 ==
    forward_runs > 0 =>
        /\ \A a \in DOMAIN mbox_conf.hot \cup {num_anchors - 1} :
              LET bg   == ConfAt(a * 2)
                  face == ConfAt(a * 2 + 1)
                  c    == Confidence(a)
                  b    == BgProbability(bg, face)
              IN  /\ InUnit(c)
                  /\ b.den = c.den /\ c.num + b.num = c.den
                  /\ (bg = 0 /\ face = 0) => 2 * c.num = c.den
        /\ \A k \in DOMAIN range_stats : InUnit(range_stats[k].max_conf)
        /\ \A k \in DOMAIN all_detections :
              InUnit(all_detections[k].confidence)

\* an anchor of logits (0, 0) was decoded with confidence one half
WitC7 ==
    \E a \in DOMAIN mbox_conf.hot :
        /\ ConfAt(a * 2) = 0 /\ ConfAt(a * 2 + 1) = 0
        /\ \E k \in DOMAIN all_detections :
              2 * all_detections[k].confidence.num =
                  all_detections[k].confidence.den

\* C8: when some candidate path exists and holds a usable classifier the
\* detection is run, and "not found" is printed only when no path exists.
CexC8 ==
    (pc = "done" /\ haar_failure = "none") =>
        /\ (\E p \in CascadePaths : cascade_exists[p] /\ cascade_usable[p])
              => haar_ran
        /\ Last(stdout) = "haar_not_found"
              => \A p \in CascadePaths : ~cascade_exists[p]

\* C9: a run that passes both file checks writes the output image exactly
\* once, after the last drawing call and before the Haar part begins, and the
\* loaded image is never drawn on.
InvC9 ==
    /\ img.ops = <<>>
    /\ Len(written) <= 1
    /\ pc \in AfterSave \/ haar_failure # "none" =>
          /\ Len(written) = 1
          /\ written[1] = result_img
          /\ Len(result_img.ops) = 2 * Drawn + 1
          /\ Last(result_img.ops) = CenterLine
    /\ (forward_runs > 0 /\ pc \notin AfterSave /\ haar_failure = "none") =>
          written = <<>>

\* the script ended after writing an image with boxes, labels and center line
WitC9 ==
    /\ pc = "done"
    /\ Len(written) = 1
    /\ Len(written[1].ops) > 1

\* C10: for every anchor count the four range reports complete without an
\* uncaught error.
CexC10 == error # "IndexError"

====
